---- MODULE Spec2Model ----
(***************************************************************************)
(* ApartBook iCal feed reconciliation: the feed row with its circuit       *)
(* breaker and schedule (ICalFeed), the event ledger (ICalEvent), the      *)
(* night blocks (Availability), the bookings that outrank imports, the     *)
(* Celery scheduler / per-feed task with its cache lock, and the staff     *)
(* entry points that call ICalFeed.sync() directly.                        *)
(*                                                                         *)
(* Time is in minutes since the start of day 0; a date is a day number.    *)
(***************************************************************************)
EXTENDS Integers, Sequences, FiniteSets, TLC

\* ----------------------------------------------------------------- bounds
MaxTicks     == 2      \* clock advances per behaviour
MaxSyncs     == 4      \* sync() calls of feed 1 by staff, in Spec
MaxSyncs2    == 1      \* sync() calls of feed 2 by staff, in ReconSpec
MaxReconSyncs == 2     \* sync() calls of feed 1 by staff, in ReconSpec
MaxTaskSyncs == 7      \* sync() calls per feed through the task pipeline
MaxConcSyncs == 2      \* sync() calls per feed in ConcSpec
MaxQueue     == 2      \* work items waiting in the broker
MaxDate      == 4      \* last calendar day that events and blocks mention
MaxFeeds     == 28     \* rows of the feed table the scheduler reads in BatchSpec
MaxBeats     == 3    \* beats of the scheduler in StarveSpec

\* ------------------------------------------------------ program constants
MinutesPerDay     == 1440
GraceMinutes      == 2880    \* timedelta(hours=48)
CooldownMinutes   == 60      \* timedelta(hours=1)
LockTimeout       == 5       \* minutes: cache.add(..., timeout=300)
BeatMinutes       == 1       \* 'schedule': 60.0 of schedule-ical-feeds
FailureThreshold  == 5
MaxBackoffMinutes == 1440
DefaultInterval   == 15
DefaultPriority   == 5
BatchLimit        == 20
HalfOpenLimit     == 5
MaxRetries        == 3

NULL == -1                   \* None in a DateTimeField / DateField

Feeds      == {1, 2}
Apartments == {1}
ApartmentOf(f) == 1          \* both feeds belong to the same apartment
UIDs  == {"E1", "E2"}
Dates == 0..MaxDate

Min(a, b) == IF a < b THEN a ELSE b

RECURSIVE Pow2(_)
Pow2(k) == IF k = 0 THEN 1 ELSE 2 * Pow2(k - 1)

\* today = datetime.now().date()
Today(t) == t \div MinutesPerDay

\* ------------------------------------------------- remote calendar texts
\* What _parse_ical returns for each remote document the model serves.  A
\* document is identified by its index; its SHA-256 is modelled by the same
\* index (distinct documents, distinct hashes), 0 standing for the empty
\* last_content_hash of a feed that never fetched.
Ev(u, s, e, st) == [uid |-> u, start |-> s, end |-> e, status |-> st]

Documents ==
  << << >>,
     << Ev("E1", 1, 3, "CONFIRMED") >>,
     << Ev("E1", 1, 3, "CONFIRMED"), Ev("E2", 2, 4, "CONFIRMED") >>,
     << Ev("E2", 2, 4, "CONFIRMED"), Ev("E1", 1, 3, "CONFIRMED") >>,
     << Ev("E1", 2, 2, "CONFIRMED") >>,
     << Ev("E1", 1, 3, "CANCELLED") >>,
     << Ev("E1", 1, 2, "CONFIRMED") >>,
     << Ev("E1", NULL, 3, "CONFIRMED"), Ev("E2", 3, 4, "TENTATIVE") >> >>

DocIds == 1..Len(Documents)

_parse_ical(doc) == Documents[doc]
sha256(doc) == doc

\* -------------------------------------------------------------- the rows
NoEvent == [present |-> FALSE, dtstart |-> NULL, dtend |-> NULL, status |-> "",
            missing_since |-> NULL, is_deleted |-> FALSE]

NoBlock == [present |-> FALSE, is_available |-> TRUE, source |-> "", note |-> "",
            ical_feed |-> 0, ical_event |-> ""]

NewFeed == [is_active |-> TRUE,
            last_synced |-> NULL, last_sync_status |-> "",
            last_etag |-> 0, last_content_hash |-> 0,
            consecutive_failures |-> 0, is_circuit_open |-> FALSE,
            circuit_opened_at |-> NULL,
            sync_interval_minutes |-> DefaultInterval,
            next_sync_at |-> 0, priority |-> DefaultPriority,
            total_syncs |-> 0, successful_syncs |-> 0,
            last_events_parsed |-> 0, last_events_created |-> 0,
            last_events_updated |-> 0, last_events_removed |-> 0]

VARIABLES
  now,        \* timezone.now(), minutes
  ticks,      \* how often the clock has advanced
  remote,     \* remote[f]: the document the feed's URL serves right now
  feed,       \* feed[f]: the ICalFeed row
  ledger,     \* ledger[f][u]: the ICalEvent row (feed, uid)
  avail,      \* avail[a][d]: the Availability row (apartment, date)
  bookings,   \* bookings[a]: the apartment's Booking rows
  queue,      \* queue[<<f, r>>]: work items sync_single_ical_feed(f), retries r
  lock,       \* lock[f]: cache key ical_sync_lock:f is set
  exec,       \* exec[e]: a running sync_single_ical_feed / staff request
  hist,       \* history: hist[f][u].absent_since = start of the current run
              \*   of reconcile passes that did not see u (NULL once seen);
              \*   .revived_from = the missing_since its latest reappearance
              \*   cleared
  last        \* history: what the latest sync() call did

vars == <<now, ticks, remote, feed, ledger, avail, bookings, queue, lock,
          exec, hist, last>>

\* ------------------------------------------------------------ feed row
\* ICalFeed.record_success
\* record_success storing the created and updated counters the other way round
record_success_swapped(fd, t, events_parsed, created, updated, removed) ==
  [fd EXCEPT !.last_synced = t,
             !.last_sync_status = "SUCCESS",
             !.consecutive_failures = 0,
             !.is_circuit_open = FALSE,
             !.circuit_opened_at = NULL,
             !.total_syncs = @ + 1,
             !.successful_syncs = @ + 1,
             !.last_events_parsed = events_parsed,
             !.last_events_created = updated,
             !.last_events_updated = created,
             !.last_events_removed = removed,
             !.next_sync_at = t + fd.sync_interval_minutes]

record_success(fd, t, events_parsed, created, updated, removed) ==
  [fd EXCEPT !.last_synced = t,
             !.last_sync_status = "SUCCESS",
             !.consecutive_failures = 0,
             !.is_circuit_open = FALSE,
             !.circuit_opened_at = NULL,
             !.total_syncs = @ + 1,
             !.successful_syncs = @ + 1,
             !.last_events_parsed = events_parsed,
             !.last_events_created = created,
             !.last_events_updated = updated,
             !.last_events_removed = removed,
             !.next_sync_at = t + fd.sync_interval_minutes]

\* backoff_minutes = min(sync_interval_minutes * 2 ** consecutive_failures, 1440)
backoff_uncapped(interval, failures) == interval * Pow2(failures)

backoff_minutes(interval, failures) ==
  Min(interval * Pow2(failures), MaxBackoffMinutes)

\* record_failure opening the circuit one failure late
record_failure_late(fd, t) ==
  LET failures == fd.consecutive_failures + 1
      opens    == failures > FailureThreshold
  IN [fd EXCEPT !.consecutive_failures = failures,
                !.last_synced = t,
                !.last_sync_status = "ERROR",
                !.total_syncs = @ + 1,
                !.is_circuit_open = IF opens THEN TRUE ELSE @,
                !.circuit_opened_at = IF opens THEN t ELSE @,
                !.next_sync_at =
                    t + backoff_minutes(fd.sync_interval_minutes, failures)]

\* ICalFeed.record_failure
record_failure(fd, t) ==
  LET failures == fd.consecutive_failures + 1
      opens    == failures >= FailureThreshold
  IN [fd EXCEPT !.consecutive_failures = failures,
                !.last_synced = t,
                !.last_sync_status = "ERROR",
                !.total_syncs = @ + 1,
                !.is_circuit_open = IF opens THEN TRUE ELSE @,
                !.circuit_opened_at = IF opens THEN t ELSE @,
                !.next_sync_at =
                    t + backoff_minutes(fd.sync_interval_minutes, failures)]

\* ICalFeed.sync, the 304 branch
not_modified(fd, t) ==
  [fd EXCEPT !.last_synced = t,
             !.last_sync_status = "NOT_MODIFIED",
             !.total_syncs = @ + 1,
             !.successful_syncs = @ + 1,
             !.consecutive_failures = 0,
             !.next_sync_at = t + fd.sync_interval_minutes]

\* ICalFeed.sync, the content-hash branch
hash_match(fd, t) ==
  [fd EXCEPT !.last_synced = t,
             !.last_sync_status = "HASH_MATCH",
             !.total_syncs = @ + 1,
             !.successful_syncs = @ + 1,
             !.consecutive_failures = 0,
             !.next_sync_at = t + fd.sync_interval_minutes]

\* ------------------------------------------------------- reconciliation
\* Availability.objects.filter(apartment, date, source='MANUAL').exists()
has_manual(av, d) == av[d].present /\ av[d].source = "MANUAL"

\* self.apartment.bookings.filter(status__in=[CONFIRMED, PENDING],
\*                                check_in__lte=current, check_out__gt=current)
has_booking(bk, d) ==
  \E b \in bk : /\ b.status \in {"CONFIRMED", "PENDING"}
                /\ b.check_in <= d
                /\ b.check_out > d

\* the defaults of the Availability upsert
ImportedBlock(f, u) ==
  [present |-> TRUE, is_available |-> FALSE, source |-> "ICAL",
   note |-> "IMPORTED", ical_feed |-> f, ical_event |-> u]

\* the pass so far: the rows it has written, its counters, and err once an
\* exception (IntegrityError on unique_together (apartment, date)) left the loop
Pass0(led, av) ==
  [led |-> led, av |-> av, seen |-> {}, upserted |-> {}, writes |-> {},
   created |-> 0, updated |-> 0, removed |-> 0, err |-> FALSE]

\* while current < end_date
MoreNights(current, end_date) == current < end_date

\* the body of the while loop, night after night
RECURSIVE BlockNights(_, _, _, _, _, _)
BlockNights(st, f, u, current, end_date, bk) ==
  IF st.err \/ ~MoreNights(current, end_date) THEN st
  ELSE
    LET row  == st.av[current]
        next ==
          IF has_manual(st.av, current) \/ has_booking(bk, current) THEN st
          \* update_or_create(apartment, date, ical_feed=self): the row of this
          \* feed is updated, no row is created, a row of anybody else makes
          \* the INSERT violate unique_together
          ELSE IF ~row.present \/ row.ical_feed = f
          THEN [st EXCEPT !.av[current] = ImportedBlock(f, u),
                          !.writes = @ \cup {<<u, current>>}]
          ELSE [st EXCEPT !.err = TRUE]
    IN BlockNights(next, f, u, current + 1, end_date, bk)

\* the defaults of the ICalEvent upsert, without 'is_deleted': False
UpsertedRowKeepsDeleted(old, event) ==
  [present |-> TRUE, dtstart |-> event.start, dtend |-> event.end,
   status |-> event.status, missing_since |-> NULL,
   is_deleted |-> old.is_deleted]

\* ICalEvent.objects.update_or_create(feed, uid, defaults): the row after it
UpsertedRow(old, event) ==
  [present |-> TRUE, dtstart |-> event.start, dtend |-> event.end,
   status |-> event.status, missing_since |-> NULL, is_deleted |-> FALSE]

\* the for event in events loop
RECURSIVE UpsertEvents(_, _, _, _, _, _)
UpsertEvents(st, f, events, i, today, bk) ==
  IF st.err \/ i > Len(events) THEN st
  ELSE
    LET event == events[i]
        uid   == event.uid
    IN IF event.start = NULL \/ event.end = NULL \/ event.end < today
       THEN UpsertEvents(st, f, events, i + 1, today, bk)
       ELSE
         LET was_created == ~st.led[uid].present
             st1 == [st EXCEPT
                       !.seen = @ \cup {uid},
                       !.led[uid] = UpsertedRow(st.led[uid], event),
                       !.created = IF was_created THEN @ + 1 ELSE @,
                       !.updated = IF was_created THEN @ ELSE @ + 1]
             st2 == IF event.status # "CANCELLED"
                    THEN BlockNights([st1 EXCEPT !.upserted = @ \cup {uid}],
                                     f, uid, event.start, event.end, bk)
                    ELSE st1
         IN UpsertEvents(st2, f, events, i + 1, today, bk)

\* the 48 hours counted as over as soon as the event is known to be missing
GraceOverAtOnce(row, t) == row.missing_since # NULL

\* the 48 hours counted as over when they have just been reached
GraceOverAtLimit(row, t) ==
  row.missing_since # NULL /\ t - row.missing_since >= GraceMinutes

\* timezone.now() - event.missing_since > timedelta(hours=48)
GraceOver(row, t) ==
  row.missing_since # NULL /\ t - row.missing_since > GraceMinutes

\* the missing_events loop
\* the missing-event loop removing the night blocks by the dates of the event
MarkMissingByDates(st, f, t) ==
  LET missing == {u \in UIDs : /\ st.led[u].present
                               /\ ~st.led[u].is_deleted
                               /\ u \notin st.seen}
      expired == {u \in missing : GraceOver(st.led[u], t)}
  IN [st EXCEPT
        !.led = [u \in UIDs |->
                   IF u \in missing /\ st.led[u].missing_since = NULL
                   THEN [st.led[u] EXCEPT !.missing_since = t]
                   ELSE IF u \in expired
                   THEN [st.led[u] EXCEPT !.is_deleted = TRUE]
                   ELSE st.led[u]],
        !.av = [d \in Dates |->
                   IF /\ st.av[d].present
                      /\ st.av[d].ical_feed = f
                      /\ \E u \in expired : /\ st.led[u].dtstart <= d
                                            /\ d < st.led[u].dtend
                   THEN NoBlock ELSE st.av[d]],
        !.removed = Cardinality(expired)]

MarkMissingAnyRow(st, f, t) ==
  LET missing == {u \in UIDs : /\ st.led[u].present
                               /\ ~st.led[u].is_deleted
                               /\ u \notin st.seen}
      expired == {u \in missing : GraceOver(st.led[u], t)}
  IN [st EXCEPT
        !.led = [u \in UIDs |->
                   IF u \in missing /\ st.led[u].missing_since = NULL
                   THEN [st.led[u] EXCEPT !.missing_since = t]
                   ELSE IF u \in expired
                   THEN [st.led[u] EXCEPT !.is_deleted = TRUE]
                   ELSE st.led[u]],
        !.av = [d \in Dates |->
                   IF /\ st.av[d].present
                      /\ \E u \in expired : /\ st.led[u].dtstart <= d
                                            /\ d < st.led[u].dtend
                   THEN NoBlock ELSE st.av[d]],
        !.removed = Cardinality(expired)]

MarkMissing(st, f, t) ==
  LET missing == {u \in UIDs : /\ st.led[u].present
                               /\ ~st.led[u].is_deleted
                               /\ u \notin st.seen}
      expired == {u \in missing : GraceOver(st.led[u], t)}
  IN [st EXCEPT
        !.led = [u \in UIDs |->
                   IF u \in missing /\ st.led[u].missing_since = NULL
                   THEN [st.led[u] EXCEPT !.missing_since = t]
                   ELSE IF u \in expired
                   THEN [st.led[u] EXCEPT !.is_deleted = TRUE]
                   ELSE st.led[u]],
        !.av = [d \in Dates |->
                   IF /\ st.av[d].present
                      /\ st.av[d].ical_feed = f
                      /\ st.av[d].ical_event \in expired
                   THEN NoBlock ELSE st.av[d]],
        !.removed = Cardinality(expired)]

\* ICalEvent.objects.filter(feed, uid__in=seen_uids,
\*                          missing_since__isnull=False).update(missing_since=None)
ClearReappeared(st) ==
  [st EXCEPT !.led = [u \in UIDs |->
                        IF u \in st.seen /\ st.led[u].present
                                         /\ st.led[u].missing_since # NULL
                        THEN [st.led[u] EXCEPT !.missing_since = NULL]
                        ELSE st.led[u]]]

\* lines 577-674 of ICalFeed.sync: parse, upsert, mark missing, clear
Reconcile(f, doc, t, led, av, bk) ==
  LET st == UpsertEvents(Pass0(led, av), f, _parse_ical(doc), 1, Today(t), bk)
  IN IF st.err THEN st ELSE ClearReappeared(MarkMissing(st, f, t))

\* the uids a pass over doc takes into seen_uids: both dates parsed and the
\* event not yet over
Current(doc, today) ==
  {_parse_ical(doc)[i].uid : i \in
     {j \in 1..Len(_parse_ical(doc)) :
        /\ _parse_ical(doc)[j].start # NULL
        /\ _parse_ical(doc)[j].end # NULL
        /\ ~(_parse_ical(doc)[j].end < today)}}

\* sync() that parses and reconciles a document whose hash it already holds
sync_reparsing(f, fd, response, doc, t, led, av, bk) ==
  IF response = "error"
  THEN [feed |-> record_failure(fd, t), ok |-> FALSE, ran |-> FALSE,
        pass |-> Pass0(led, av)]
  ELSE IF response = "304"
  THEN [feed |-> not_modified(fd, t), ok |-> TRUE, ran |-> FALSE,
        pass |-> Pass0(led, av)]
  ELSE
    LET fd1 == [fd EXCEPT !.last_etag = doc]
        st  == Reconcile(f, doc, t, led, av, bk)
    IN IF sha256(doc) = fd.last_content_hash
       THEN [feed |-> hash_match(fd1, t), ok |-> TRUE, ran |-> FALSE,
             pass |-> st]
       ELSE IF st.err
       THEN [feed |-> record_failure([fd1 EXCEPT !.last_content_hash =
                                        sha256(doc)], t),
             ok |-> FALSE, ran |-> TRUE, pass |-> st]
       ELSE [feed |-> record_success([fd1 EXCEPT !.last_content_hash =
                                        sha256(doc)], t,
                                     Len(_parse_ical(doc)),
                                     st.created, st.updated, st.removed),
             ok |-> TRUE, ran |-> TRUE, pass |-> st]

\* ICalFeed.sync on the instance fd, against the rows led/av/bk, when the GET
\* is answered by response ("error": exception or HTTP error status, "304",
\* "200" with document doc).  ran: the reconcile loop was entered; the rows
\* of an aborted pass stay written (no transaction around the loop).
sync(f, fd, response, doc, t, led, av, bk) ==
  IF response = "error"
  THEN [feed |-> record_failure(fd, t), ok |-> FALSE, ran |-> FALSE,
        pass |-> Pass0(led, av)]
  ELSE IF response = "304"
  THEN [feed |-> not_modified(fd, t), ok |-> TRUE, ran |-> FALSE,
        pass |-> Pass0(led, av)]
  ELSE
    LET fd1 == [fd EXCEPT !.last_etag = doc]
    IN IF sha256(doc) = fd.last_content_hash
       THEN [feed |-> hash_match(fd1, t), ok |-> TRUE, ran |-> FALSE,
             pass |-> Pass0(led, av)]
       ELSE
         LET fd2 == [fd1 EXCEPT !.last_content_hash = sha256(doc)]
             st  == Reconcile(f, doc, t, led, av, bk)
         IN IF st.err
            THEN [feed |-> record_failure(fd2, t), ok |-> FALSE, ran |-> TRUE,
                  pass |-> st]
            ELSE [feed |-> record_success(fd2, t, Len(_parse_ical(doc)),
                                          st.created, st.updated, st.removed),
                  ok |-> TRUE, ran |-> TRUE, pass |-> st]

\* history of what the passes saw
HistAfter(f, r, doc, t) ==
  [u \in UIDs |->
     IF ~r.ran THEN hist[f][u]
     ELSE IF u \in r.pass.seen
     THEN [absent_since |-> NULL,
           revived_from |-> IF ledger[f][u].present
                               /\ ledger[f][u].missing_since # NULL
                            THEN ledger[f][u].missing_since
                            ELSE hist[f][u].revived_from]
     ELSE IF r.ok /\ u \notin Current(doc, Today(t))
                  /\ hist[f][u].absent_since = NULL
     THEN [hist[f][u] EXCEPT !.absent_since = t]
     ELSE hist[f][u]]

\* the latest sync() call: what it upserted and which Availability rows it
\* wrote; NoCall in every state that no sync() call has just produced
NoCall == [feed |-> 0, ok |-> FALSE, ran |-> FALSE, upserted |-> {},
           writes |-> {}]

\* what the endpoint can answer to the GET of instance fd: an error, which
\* shows no document; a 304, only to the validator of the document it still
\* serves; or a 200 with whatever document it publishes by then
Answers(f, fd) ==
  {<<"error", remote[f]>>}
  \cup {<<"200", doc>> : doc \in DocIds}
  \cup (IF fd.last_etag # 0 THEN {<<"304", fd.last_etag>>} ELSE {})

\* one whole call of feed.sync() on a freshly loaded instance
SyncCall(f, response, doc) ==
  /\ <<response, doc>> \in Answers(f, feed[f])
  /\ \E r \in {sync(f, feed[f], response, doc, now, ledger[f],
                     avail[ApartmentOf(f)], bookings[ApartmentOf(f)])} :
       /\ remote' = [remote EXCEPT ![f] = doc]
       /\ feed'   = [feed EXCEPT ![f] = r.feed]
       /\ ledger' = [ledger EXCEPT ![f] = r.pass.led]
       /\ avail'  = [avail EXCEPT ![ApartmentOf(f)] = r.pass.av]
       /\ hist'   = [hist EXCEPT ![f] = HistAfter(f, r, doc, now)]
       /\ last'   = [feed |-> f, ok |-> r.ok, ran |-> r.ran,
                     upserted |-> r.pass.upserted, writes |-> r.pass.writes]

\* ------------------------------------------------------------ environment
\* the clock moves on by d minutes
Tick(d) ==
  /\ ticks < MaxTicks
  /\ now' = now + d
  /\ ticks' = ticks + 1
  /\ last' = NoCall
  /\ UNCHANGED <<remote, feed, ledger, avail, bookings, queue, lock, exec,
                 hist>>

\* ------------------------------------------------------ staff entry points
\* staff_ical_feeds, action 'sync' (sync_all, staff_sync_all_ical and the
\* sync_ical_feeds command call feed.sync() the same way): no lock, no check
\* of is_active, circuit or next_sync_at
StaffSync(f, response, doc, budget) ==
  /\ feed[f].total_syncs < budget
  /\ SyncCall(f, response, doc)
  /\ UNCHANGED <<now, ticks, bookings, queue, lock, exec>>

\* update_or_create(apartment, date, defaults={is_available: False, note})
ManualBlock(row) ==
  IF row.present
  THEN [row EXCEPT !.is_available = FALSE, !.note = "STAFF"]
  ELSE [present |-> TRUE, is_available |-> FALSE, source |-> "MANUAL",
        note |-> "STAFF", ical_feed |-> 0, ical_event |-> ""]

\* staff_block_dates
StaffBlockDates(a, start_date, end_date) ==
  /\ ~(start_date > end_date)
  /\ ~(start_date < Today(now))
  /\ ~\E b \in bookings[a] : /\ b.status \in {"PENDING", "CONFIRMED"}
                             /\ b.check_in <= end_date
                             /\ b.check_out > start_date
  /\ avail' = [avail EXCEPT ![a] =
                 [d \in Dates |-> IF start_date <= d /\ d <= end_date
                                  THEN ManualBlock(avail[a][d])
                                  ELSE avail[a][d]]]
  /\ last' = NoCall
  /\ UNCHANGED <<now, ticks, remote, feed, ledger, bookings, queue, lock,
                 exec, hist>>

\* staff_unblock_date / staff_delete_availability
StaffUnblockDate(a, d) ==
  /\ avail[a][d].present
  /\ avail' = [avail EXCEPT ![a][d] = NoBlock]
  /\ last' = NoCall
  /\ UNCHANGED <<now, ticks, remote, feed, ledger, bookings, queue, lock,
                 exec, hist>>

\* Apartment.is_available_for_booking
is_available_for_booking(a, check_in, check_out) ==
  /\ ~(check_out <= check_in)
  /\ \A d \in Dates :
       (check_in <= d /\ d < check_out) =>
          /\ ~(avail[a][d].present /\ ~avail[a][d].is_available)
          /\ ~has_booking(bookings[a], d)

\* create_booking
CreateBooking(a, check_in, check_out) ==
  /\ ~(check_in < Today(now))
  /\ is_available_for_booking(a, check_in, check_out)
  /\ bookings' = [bookings EXCEPT ![a] =
                    @ \cup {[check_in |-> check_in, check_out |-> check_out,
                             status |-> "PENDING"]}]
  /\ last' = NoCall
  /\ UNCHANGED <<now, ticks, remote, feed, ledger, avail, queue, lock, exec,
                 hist>>

\* cancel_booking
CancelBooking(a, b) ==
  /\ b \in bookings[a]
  /\ b.status = "PENDING"
  /\ bookings' = [bookings EXCEPT ![a] =
                    (@ \ {b}) \cup {[b EXCEPT !.status = "CANCELLED_BY_USER"]}]
  /\ last' = NoCall
  /\ UNCHANGED <<now, ticks, remote, feed, ledger, avail, queue, lock, exec,
                 hist>>

\* ------------------------------------------------------------------ Init
Items == Feeds \X (0..MaxRetries)
Execs == {"w1", "w2", "s1"}
Idle  == [pc |-> "idle", feed |-> 0, retries |-> 0, held |-> FALSE,
          since |-> 0, self |-> NewFeed, doc |-> 0, ok |-> FALSE]
Stays == {<<1, 2>>}           \* the stays guests ask for
StaffDates == {2}             \* the dates staff block and unblock

Init ==
  /\ now = 0
  /\ ticks = 0
  /\ remote = [f \in Feeds |-> 1]
  /\ feed = [f \in Feeds |-> NewFeed]
  /\ ledger = [f \in Feeds |-> [u \in UIDs |-> NoEvent]]
  /\ avail = [a \in Apartments |-> [d \in Dates |-> NoBlock]]
  /\ bookings = [a \in Apartments |-> {}]
  /\ queue = [i \in Items |-> 0]
  /\ lock = [f \in Feeds |-> FALSE]
  /\ exec = [e \in Execs |-> Idle]
  /\ hist = [f \in Feeds |-> [u \in UIDs |->
               [absent_since |-> NULL, revived_from |-> NULL]]]
  /\ last = NoCall

\* ------------------- Spec: one feed polled by staff over the grace period
\* the documents feed 1 publishes meanwhile; feed 2, which ReconSpec syncs
\* too, publishes document 2
GraceDocs(f) == IF f = 1 THEN {1, 2, 4, 8} ELSE {2}

Next ==
  \/ \E d \in {CooldownMinutes, GraceMinutes} : Tick(d)
  \/ \E response \in {"error", "304", "200"} : \E doc \in GraceDocs(1) :
       StaffSync(1, response, doc, MaxSyncs)
  \/ \E a \in Apartments : \E s \in StaffDates : StaffBlockDates(a, s, s)

Spec == Init /\ [][Next]_vars

\* ------------- ReconSpec: what one pass materialises, whatever the document
ReconNext ==
  \/ Tick(GraceMinutes)
  \/ \E response \in {"error", "304", "200"} : \E doc \in DocIds :
       StaffSync(1, response, doc, MaxReconSyncs)
  \/ \E doc \in GraceDocs(2) : StaffSync(2, "200", doc, MaxSyncs2)
  \/ \E a \in Apartments : \E s \in StaffDates : StaffBlockDates(a, s, s)
  \/ \E a \in Apartments : \E d \in StaffDates : StaffUnblockDate(a, d)
  \/ \E a \in Apartments : \E st \in Stays : CreateBooking(a, st[1], st[2])
  \/ \E a \in Apartments : \E b \in bookings[a] : CancelBooking(a, b)

ReconSpec == Init /\ [][ReconNext]_vars

\* ------ OverlapSpec: one feed whose two events share a night, in either
\* order, and lose one or both of them; a guest may hold the shared night
OverlapDocs == {1, 2, 3, 4}
OverlapStays == {<<2, 3>>}

OverlapNext ==
  \/ \E d \in {CooldownMinutes, GraceMinutes} : Tick(d)
  \/ \E doc \in OverlapDocs : StaffSync(1, "200", doc, MaxSyncs)
  \/ \E a \in Apartments : \E st \in OverlapStays :
       CreateBooking(a, st[1], st[2])
  \/ \E a \in Apartments : \E b \in bookings[a] : CancelBooking(a, b)

OverlapSpec == Init /\ [][OverlapNext]_vars

\* ------------- PassSpec: the passes of two feeds over nights that staff and
\* guests only ever take, never free
PassNext ==
  \/ Tick(GraceMinutes)
  \/ \E doc \in DocIds : StaffSync(1, "200", doc, MaxReconSyncs)
  \/ \E doc \in GraceDocs(2) : StaffSync(2, "200", doc, MaxSyncs2)
  \/ \E a \in Apartments : \E s \in StaffDates : StaffBlockDates(a, s, s)
  \/ \E a \in Apartments : \E st \in Stays : CreateBooking(a, st[1], st[2])

PassSpec == Init /\ [][PassNext]_vars

\* two feeds of one apartment, staff blocks and a guest's booking, with
\* enough passes of feed 1 for an event to be imported, go missing and be
\* tombstoned
FrameDocs == {1, 2, 8}

FrameNext ==
  \/ Tick(GraceMinutes)
  \/ \E doc \in FrameDocs : StaffSync(1, "200", doc, MaxSyncs)
  \/ \E doc \in GraceDocs(2) : StaffSync(2, "200", doc, MaxSyncs2)
  \/ \E a \in Apartments : \E s \in StaffDates : StaffBlockDates(a, s, s)
  \/ \E a \in Apartments : \E st \in Stays : CreateBooking(a, st[1], st[2])

FrameSpec == Init /\ [][FrameNext]_vars

\* ------------------------------------------------------ the task pipeline
RECURSIVE QueueSize(_)
QueueSize(items) ==
  IF items = {} THEN 0
  ELSE LET i == CHOOSE x \in items : TRUE
       IN queue[i] + QueueSize(items \ {i})

\* queryset.order_by(...)[:n]: the first n rows, rows the order does not
\* tell apart in any order. The rows fewer than n others could precede are in
\* every batch; the batch is filled from the rows fewer than n others must
\* precede.
FirstN(rows, n, before) ==
  LET k == Min(n, Cardinality(rows))
      sure == {x \in rows :
                 Cardinality({y \in rows \ {x} : <<x, y>> \notin before}) < k}
      maybe == {x \in rows :
                  Cardinality({y \in rows : <<y, x>> \in before}) < k} \ sure
  IN {sure \cup c : c \in {d \in SUBSET maybe :
                             Cardinality(d) = k - Cardinality(sure)}}

\* ascending order of a nullable column in PostgreSQL: NULL comes last
NullsLast(x, y) == x # NULL /\ (y = NULL \/ x < y)

\* order_by('priority', 'next_sync_at'): the pairs <<x, y>> with x before y
DueOrder ==
  {p \in (DOMAIN feed) \X (DOMAIN feed) :
     \/ feed[p[1]].priority < feed[p[2]].priority
     \/ /\ feed[p[1]].priority = feed[p[2]].priority
        /\ NullsLast(feed[p[1]].next_sync_at, feed[p[2]].next_sync_at)}

\* order_by('priority')
PriorityOrder ==
  {p \in (DOMAIN feed) \X (DOMAIN feed) :
     feed[p[1]].priority < feed[p[2]].priority}

\* the rows of the two filters
due_rows ==
  {f \in DOMAIN feed : /\ feed[f].is_active
                       /\ ~feed[f].is_circuit_open
                       /\ \/ feed[f].next_sync_at = NULL
                          \/ feed[f].next_sync_at <= now}

half_open_rows ==
  {f \in DOMAIN feed : /\ feed[f].is_active
                       /\ feed[f].is_circuit_open
                       /\ feed[f].circuit_opened_at # NULL
                       /\ feed[f].circuit_opened_at <= now - CooldownMinutes}

no_feeds == {{}}

due_feeds_uncapped == {due_rows}

due_feeds == FirstN(due_rows, BatchLimit, DueOrder)

half_open_feeds == FirstN(half_open_rows, HalfOpenLimit, PriorityOrder)

\* schedule_due_ical_feeds: one work item per selected feed; at most limit
\* work items wait in the queue
ScheduleUpTo(limit) ==
  \E due \in due_feeds : \E half \in half_open_feeds :
    /\ due \cup half # {}
    /\ QueueSize(DOMAIN queue) + Cardinality(due \cup half) <= limit
    /\ queue' = [i \in DOMAIN queue |->
                   IF i[2] = 0 /\ i[1] \in due \cup half
                   THEN queue[i] + 1 ELSE queue[i]]
    /\ last' = NoCall
    /\ UNCHANGED <<now, ticks, remote, feed, ledger, avail, bookings, lock,
                   exec, hist>>

Schedule == ScheduleUpTo(MaxQueue)

\* the checks of sync_single_ical_feed between loading the feed and feed.sync()
TaskSkips(fd, t) ==
  \/ ~fd.is_active
  \/ /\ fd.is_circuit_open
     /\ fd.circuit_opened_at # NULL
     /\ t - fd.circuit_opened_at < CooldownMinutes

retry_never(q, f, r, ok) == q

\* a failed sync raises while self.request.retries < self.max_retries and
\* autoretry_for queues the next attempt
retry(q, f, r, ok) ==
  [i \in Items |->
     IF ~ok /\ r < MaxRetries /\ i = <<f, r + 1>> THEN q[i] + 1 ELSE q[i]]

\* the work items after attempt r of feed f ended with success flag ok
AfterAttempt(q, f, r, ok) ==
  retry([q EXCEPT ![<<f, r>>] = @ - 1], f, r, ok)

\* sync_single_ical_feed, one whole invocation: cache.add, load, checks,
\* feed.sync(), retry, cache.delete
TaskRun(f, r, response, doc) ==
  /\ queue[<<f, r>>] > 0
  /\ IF lock[f] \/ TaskSkips(feed[f], now)
     THEN /\ response = "error"
          /\ doc = remote[f]
          /\ queue' = AfterAttempt(queue, f, r, TRUE)
          /\ last' = NoCall
          /\ UNCHANGED <<remote, feed, ledger, avail, hist>>
     ELSE /\ feed[f].total_syncs < MaxTaskSyncs
          /\ SyncCall(f, response, doc)
          /\ queue' = AfterAttempt(queue, f, r, last'.ok)
  /\ UNCHANGED <<now, ticks, bookings, lock, exec>>

\* disable_feeds (admin action) on a new feed
DisabledFeed ==
  [NewFeed EXCEPT !.is_active = FALSE, !.is_circuit_open = TRUE,
                  !.circuit_opened_at = 0]

\* feed 1 is polled by the pipeline, feed 2 has been disabled by staff
TaskInit ==
  /\ now = 0
  /\ ticks = 0
  /\ remote = [f \in Feeds |-> 1]
  /\ feed = [f \in Feeds |-> IF f = 1 THEN NewFeed ELSE DisabledFeed]
  /\ ledger = [f \in Feeds |-> [u \in UIDs |-> NoEvent]]
  /\ avail = [a \in Apartments |-> [d \in Dates |-> NoBlock]]
  /\ bookings = [a \in Apartments |-> {}]
  /\ queue = [i \in Items |-> 0]
  /\ lock = [f \in Feeds |-> FALSE]
  /\ exec = [e \in Execs |-> Idle]
  /\ hist = [f \in Feeds |-> [u \in UIDs |->
               [absent_since |-> NULL, revived_from |-> NULL]]]
  /\ last = NoCall

TaskDocs == {1, 2}

TaskNext ==
  \/ \E d \in {CooldownMinutes, GraceMinutes} : Tick(d)
  \/ Schedule
  \/ \E i \in Items : \E response \in {"error", "304", "200"} :
       \E doc \in TaskDocs : TaskRun(i[1], i[2], response, doc)

TaskSpec == TaskInit /\ [][TaskNext]_vars

\* ------ BackoffSpec: a feed whose interval staff have set, failing in a row
\* sync_interval_minutes as the admin form takes it: the default, and values
\* whose multiples reach the 24 hours
Intervals == {DefaultInterval, 180, 240, MaxBackoffMinutes}

BackoffInit ==
  /\ now = 0
  /\ ticks = 0
  /\ remote = [f \in Feeds |-> 1]
  /\ \E i \in Intervals :
       feed = [f \in Feeds |-> [NewFeed EXCEPT !.sync_interval_minutes = i]]
  /\ ledger = [f \in Feeds |-> [u \in UIDs |-> NoEvent]]
  /\ avail = [a \in Apartments |-> [d \in Dates |-> NoBlock]]
  /\ bookings = [a \in Apartments |-> {}]
  /\ queue = [i \in Items |-> 0]
  /\ lock = [f \in Feeds |-> FALSE]
  /\ exec = [e \in Execs |-> Idle]
  /\ hist = [f \in Feeds |-> [u \in UIDs |->
               [absent_since |-> NULL, revived_from |-> NULL]]]
  /\ last = NoCall

BackoffNext ==
  \/ Tick(CooldownMinutes)
  \/ \E response \in {"error", "200"} :
       StaffSync(1, response, remote[1], MaxTaskSyncs)

BackoffSpec == BackoffInit /\ [][BackoffNext]_vars

\* ----------- BatchSpec: the scheduler over a table of more feeds than one
\* invocation takes
ManyFeeds == 1..MaxFeeds

\* how many rows of the table are due, how many are half-open
DueCounts == {0, BatchLimit - 1, BatchLimit, BatchLimit + 1}
HalfOpenCounts == {0, HalfOpenLimit - 1, HalfOpenLimit, HalfOpenLimit + 1}

\* row f of a table read at minute 2 * CooldownMinutes: the first nd rows are
\* due, the next nh rows have a circuit that opened at least an hour ago, the
\* others are inactive, not yet due, or within the cool-down
BatchRow(f, nd, nh, sh, q) ==
  LET row == [NewFeed EXCEPT
                !.priority = 1 + ((f + sh) % DefaultPriority),
                !.next_sync_at = 10 * ((f * q) % 11)]
  IN IF f <= nd THEN row
     ELSE IF f <= nd + nh
     THEN [row EXCEPT !.is_circuit_open = TRUE,
                      !.consecutive_failures = FailureThreshold,
                      !.last_sync_status = "ERROR",
                      !.circuit_opened_at = CooldownMinutes * (f % 2)]
     ELSE IF f % 3 = 0 THEN [row EXCEPT !.is_active = FALSE]
     ELSE IF f % 3 = 1
     THEN [row EXCEPT !.next_sync_at = 2 * CooldownMinutes + 10 + (f % 7)]
     ELSE [row EXCEPT !.is_circuit_open = TRUE,
                      !.consecutive_failures = FailureThreshold,
                      !.last_sync_status = "ERROR",
                      !.circuit_opened_at = 2 * CooldownMinutes - 20]

BatchInit ==
  /\ now = 2 * CooldownMinutes
  /\ ticks = 0
  /\ remote = [f \in Feeds |-> 1]
  /\ \E nd \in DueCounts : \E nh \in HalfOpenCounts :
       \E sh \in 0..2 : \E q \in 1..2 :
         feed = [f \in ManyFeeds |-> BatchRow(f, nd, nh, sh, q)]
  /\ ledger = [f \in Feeds |-> [u \in UIDs |-> NoEvent]]
  /\ avail = [a \in Apartments |-> [d \in Dates |-> NoBlock]]
  /\ bookings = [a \in Apartments |-> {}]
  /\ queue = [i \in ManyFeeds \X {0} |-> 0]
  /\ lock = [f \in Feeds |-> FALSE]
  /\ exec = [e \in Execs |-> Idle]
  /\ hist = [f \in Feeds |-> [u \in UIDs |->
               [absent_since |-> NULL, revived_from |-> NULL]]]
  /\ last = NoCall

BatchNext ==
  \/ Tick(CooldownMinutes)
  \/ ScheduleUpTo(BatchLimit + HalfOpenLimit)

BatchSpec == BatchInit /\ [][BatchNext]_vars

\* ------ StarveSpec: a table in which a full batch of priority-1 feeds is
\* due at every beat. Every feed is polled every two minutes; the feeds of the
\* apartments with a booking in the next 7 days have priority 1
\* (calculate_priority), the others priority 5. All publish the empty calendar.
StarveFeeds == 1..(2 * BatchLimit + 2)

\* how many feeds of the table have priority 1: two full batches
UrgentCount == 2 * BatchLimit

StarveRow(f, urgent, q) ==
  [NewFeed EXCEPT
     !.priority = IF f <= urgent THEN 1 ELSE DefaultPriority,
     !.sync_interval_minutes = 2 * BeatMinutes,
     !.next_sync_at = IF f <= urgent THEN f ELSE q]

StarveInit ==
  /\ now = CooldownMinutes
  /\ ticks = 0
  /\ remote = [f \in Feeds |-> 1]
  /\ \E q \in {0, BatchLimit, 2 * BatchLimit} :
       feed = [f \in StarveFeeds |-> StarveRow(f, UrgentCount, q + f)]
  /\ ledger = [f \in Feeds |-> [u \in UIDs |-> NoEvent]]
  /\ avail = [a \in Apartments |-> [d \in Dates |-> NoBlock]]
  /\ bookings = [a \in Apartments |-> {}]
  /\ queue = [i \in StarveFeeds \X {0} |-> 0]
  /\ lock = [f \in Feeds |-> FALSE]
  /\ exec = [e \in Execs |-> Idle]
  /\ hist = [f \in Feeds |-> [u \in UIDs |->
               [absent_since |-> NULL, revived_from |-> NULL]]]
  /\ last = NoCall

\* CELERY_BEAT_SCHEDULE: the beat period passes, by when the waiting work
\* items have run, and the beat invokes schedule_due_ical_feeds
Beat ==
  /\ ticks < MaxBeats
  /\ QueueSize(DOMAIN queue) = 0
  /\ now' = now + BeatMinutes
  /\ ticks' = ticks + 1
  /\ UNCHANGED <<remote, feed, ledger, avail, bookings, lock, exec, hist>>
  /\ \E due \in due_feeds' : \E half \in half_open_feeds' :
       queue' = [i \in DOMAIN queue |->
                   IF i[2] = 0 /\ i[1] \in due \cup half
                   THEN queue[i] + 1 ELSE queue[i]]
  /\ last' = NoCall

\* sync_single_ical_feed for the work item of feed f, the waiting items
\* taken in the order of their countdown (2 seconds per place in the batch):
\* the lock is free, the endpoint answers 200 with the empty calendar, the
\* sync succeeds and nothing is retried
BatchTask(f) ==
  /\ queue[<<f, 0>>] > 0
  /\ \A g \in DOMAIN feed : g < f => queue[<<g, 0>>] = 0
  /\ queue' = [queue EXCEPT ![<<f, 0>>] = @ - 1]
  /\ IF TaskSkips(feed[f], now)
     THEN feed' = feed
     ELSE \E r \in {sync(f, feed[f], "200", 1, now,
                         [u \in UIDs |-> NoEvent], avail[1], bookings[1])} :
            feed' = [feed EXCEPT ![f] = r.feed]
  /\ last' = NoCall
  /\ UNCHANGED <<now, ticks, remote, ledger, avail, bookings, lock, exec,
                 hist>>

StarveNext ==
  \/ Beat
  \/ \E f \in StarveFeeds : BatchTask(f)

StarveSpec == StarveInit /\ [][StarveNext]_vars

\* -------- LiveSpec: the pipeline while days pass and the beat keeps firing
LiveNext ==
  \/ Tick(GraceMinutes)
  \/ Schedule
  \/ \E i \in Items : \E response \in {"error", "200"} :
       TaskRun(i[1], i[2], response, remote[i[1]])

\* time advances; CELERY_BEAT_SCHEDULE runs schedule_due_ical_feeds every
\* 60 seconds
LiveSpec ==
  /\ TaskInit
  /\ [][LiveNext]_vars
  /\ WF_vars(Tick(GraceMinutes))
  /\ WF_vars(Schedule)

\* --------------------------- ConcSpec: sync() calls that run side by side
\* A running call holds the instance it loaded (self); its requests.get, its
\* reconcile loop with the final save, and its return are separate steps.

\* the executions that are between loading a feed and saving it
InSync(f) == {e \in Execs : exec[e].feed = f /\ exec[e].pc \in {"fetch", "reconcile"}}

\* the finally block of sync_single_ical_feed: cache.delete only by the
\* invocation whose cache.add succeeded
finally_lock_kept(lk, f, lock_acquired) == lk

finally_lock_always(lk, f, lock_acquired) == [lk EXCEPT ![f] = FALSE]

finally_lock(lk, f, lock_acquired) ==
  IF lock_acquired THEN [lk EXCEPT ![f] = FALSE] ELSE lk

\* sync_single_ical_feed up to feed.sync(): cache.add, load, the checks.
\* An invocation that finds the lock taken returns at once; one that took it
\* and then abandons (inactive, circuit open) has the return and the finally
\* block still to run.
TaskBegin(w, f, r, budget) ==
  /\ exec[w].pc = "idle"
  /\ queue[<<f, r>>] > 0
  /\ queue' = [queue EXCEPT ![<<f, r>>] = @ - 1]
  /\ IF lock[f]
     THEN /\ lock' = finally_lock(lock, f, FALSE)
          /\ UNCHANGED exec
     ELSE /\ lock' = [lock EXCEPT ![f] = TRUE]
          /\ IF TaskSkips(feed[f], now)
             THEN exec' = [exec EXCEPT ![w] =
                             [pc |-> "done", feed |-> f, retries |-> r,
                              held |-> TRUE, since |-> now,
                              self |-> feed[f], doc |-> 0,
                              ok |-> TRUE]]
             ELSE /\ feed[f].total_syncs < budget
                  /\ exec' = [exec EXCEPT ![w] =
                                [pc |-> "fetch", feed |-> f, retries |-> r,
                                 held |-> TRUE, since |-> now,
                                 self |-> feed[f], doc |-> 0,
                                 ok |-> FALSE]]
  /\ last' = NoCall
  /\ UNCHANGED <<now, ticks, remote, feed, ledger, avail, bookings, hist>>

\* staff_ical_feeds, action 'sync', up to feed.sync()
StaffBegin(s, f) ==
  /\ exec[s].pc = "idle"
  /\ feed[f].total_syncs < MaxConcSyncs
  /\ exec' = [exec EXCEPT ![s] =
                [pc |-> "fetch", feed |-> f, retries |-> 0, held |-> FALSE,
                 since |-> now, self |-> feed[f], doc |-> 0, ok |-> FALSE]]
  /\ last' = NoCall
  /\ UNCHANGED <<now, ticks, remote, feed, ledger, avail, bookings, queue,
                 lock, hist>>

\* the call reaches parse and reconcile: a 200 whose hash is new
Changed(fd, response, doc) ==
  response = "200" /\ sha256(doc) # fd.last_content_hash

\* requests.get and, unless the document changed, the rest of sync()
Fetch(e, response, doc) ==
  /\ exec[e].pc = "fetch"
  /\ <<response, doc>> \in Answers(exec[e].feed, exec[e].self)
  /\ remote' = [remote EXCEPT ![exec[e].feed] = doc]
  /\ IF Changed(exec[e].self, response, doc)
     THEN /\ exec' = [exec EXCEPT ![e].pc = "reconcile", ![e].doc = doc]
          /\ last' = NoCall
          /\ UNCHANGED <<feed, hist>>
     ELSE \E r \in {sync(exec[e].feed, exec[e].self, response, doc, now,
                         ledger[exec[e].feed],
                         avail[ApartmentOf(exec[e].feed)],
                         bookings[ApartmentOf(exec[e].feed)])} :
            /\ feed' = [feed EXCEPT ![exec[e].feed] = r.feed]
            /\ exec' = [exec EXCEPT ![e].pc = "done", ![e].ok = r.ok,
                                    ![e].self = r.feed]
            /\ hist' = hist
            /\ last' = [feed |-> exec[e].feed, ok |-> r.ok, ran |-> r.ran,
                        upserted |-> {}, writes |-> {}]
  /\ UNCHANGED <<now, ticks, ledger, avail, bookings, queue, lock>>

\* parse, the reconcile loop on the rows as they are now, and self.save()
\* of the instance loaded at the start
ReconcileAndSave(e) ==
  /\ exec[e].pc = "reconcile"
  /\ \E r \in {sync(exec[e].feed, exec[e].self, "200", exec[e].doc, now,
                    ledger[exec[e].feed],
                    avail[ApartmentOf(exec[e].feed)],
                    bookings[ApartmentOf(exec[e].feed)])} :
       /\ feed'   = [feed EXCEPT ![exec[e].feed] = r.feed]
       /\ ledger' = [ledger EXCEPT ![exec[e].feed] = r.pass.led]
       /\ avail'  = [avail EXCEPT ![ApartmentOf(exec[e].feed)] = r.pass.av]
       /\ hist'   = [hist EXCEPT ![exec[e].feed] =
                       HistAfter(exec[e].feed, r, exec[e].doc, now)]
       /\ exec'   = [exec EXCEPT ![e].pc = "done", ![e].ok = r.ok,
                                 ![e].self = r.feed]
       /\ last'   = [feed |-> exec[e].feed, ok |-> r.ok, ran |-> r.ran,
                     upserted |-> r.pass.upserted, writes |-> r.pass.writes]
  /\ UNCHANGED <<now, ticks, remote, bookings, queue, lock>>

\* the end of sync_single_ical_feed: raise for the retry, cache.delete
TaskEnd(w) ==
  /\ exec[w].pc = "done"
  /\ exec[w].held
  /\ queue' = retry(queue, exec[w].feed, exec[w].retries, exec[w].ok)
  /\ lock' = finally_lock(lock, exec[w].feed, exec[w].held)
  /\ exec' = [exec EXCEPT ![w] = Idle]
  /\ last' = NoCall
  /\ UNCHANGED <<now, ticks, remote, feed, ledger, avail, bookings, hist>>

\* the staff request returns
StaffEnd(s) ==
  /\ exec[s].pc = "done"
  /\ ~exec[s].held
  /\ exec' = [exec EXCEPT ![s] = Idle]
  /\ last' = NoCall
  /\ UNCHANGED <<now, ticks, remote, feed, ledger, avail, bookings, queue,
                 lock, hist>>

ConcNext ==
  \/ Schedule
  \/ \E i \in Items : TaskBegin("w1", i[1], i[2], MaxConcSyncs)
  \/ StaffBegin("s1", 1)
  \/ \E e \in Execs : \E response \in {"error", "304", "200"} :
       \E doc \in TaskDocs : Fetch(e, response, doc)
  \/ \E e \in Execs : ReconcileAndSave(e)
  \/ TaskEnd("w1")
  \/ StaffEnd("s1")

ConcSpec == TaskInit /\ [][ConcNext]_vars

\* ------------------ LockSpec: two workers taking work items of the queue,
\* all within one minute
Workers == {"w1", "w2"}

\* disable_feeds (admin action)
disable_feeds(f) ==
  /\ feed[f].is_active
  /\ feed' = [feed EXCEPT ![f].is_active = FALSE,
                          ![f].is_circuit_open = TRUE,
                          ![f].circuit_opened_at = now]
  /\ last' = NoCall
  /\ UNCHANGED <<now, ticks, remote, ledger, avail, bookings, queue, lock,
                 exec, hist>>

LockNext ==
  \/ Schedule
  \/ \E w \in Workers : \E i \in Items :
       TaskBegin(w, i[1], i[2], MaxTaskSyncs)
  \/ \E w \in Workers : \E response \in {"error", "200"} :
       Fetch(w, response, remote[1])
  \/ \E w \in Workers : ReconcileAndSave(w)
  \/ \E w \in Workers : TaskEnd(w)
  \/ disable_feeds(1)

LockSpec == TaskInit /\ [][LockNext]_vars

\* cache.add(lock_key, "1", timeout=300): five minutes pass while nothing
\* else happens, and every key that was in the cache has expired, whether or
\* not the invocation that set it has ended
lock_expires ==
  /\ ticks < MaxTicks
  /\ now' = now + LockTimeout
  /\ ticks' = ticks + 1
  /\ lock' = [f \in Feeds |-> FALSE]
  /\ last' = NoCall
  /\ UNCHANGED <<remote, feed, ledger, avail, bookings, queue, exec, hist>>

\* the invocation whose cache.add set the key that is in the cache now
Owns(w, f) ==
  /\ exec[w].held
  /\ exec[w].feed = f
  /\ exec[w].pc # "idle"
  /\ now < exec[w].since + LockTimeout

\* the task pipeline on feed 1 with runs that may outlast the lock's TTL
TtlNext ==
  \/ Schedule
  \/ \E w \in Workers : \E i \in Items :
       TaskBegin(w, i[1], i[2], MaxConcSyncs)
  \/ \E w \in Workers : \E response \in {"error", "200"} :
       Fetch(w, response, remote[1])
  \/ \E w \in Workers : ReconcileAndSave(w)
  \/ \E w \in Workers : TaskEnd(w)
  \/ lock_expires

TtlSpec == TaskInit /\ [][TtlNext]_vars

\* ================================================================ claims
Successes == {"SUCCESS", "NOT_MODIFIED", "HASH_MATCH"}

\* this step is one sync() call of feed f
SyncStep(f) == feed'[f].total_syncs = feed[f].total_syncs + 1

\* the event of document doc with uid u
EventOf(doc, u) ==
  _parse_ical(doc)[CHOOSE i \in 1..Len(_parse_ical(doc)) :
                     _parse_ical(doc)[i].uid = u]

\* the dates whose row is the imported block of event u of feed f
BlocksOf(av, f, u) ==
  {d \in Dates : av[d].present /\ av[d].ical_feed = f /\ av[d].ical_event = u}

\* C1: at most one sync of a given feed is in progress at any time, whoever
\* started it (queued task, staff action, management command).
C1_AtMostOneSync == \A f \in Feeds : Cardinality(InSync(f)) <= 1

\* C2: once staff has blocked a date with staff_block_dates, no later sync of
\* a feed of the apartment changes that row: it stays unavailable, keeps its
\* source and manual note and is not deleted.
C2_ManualBlockKept ==
  [][\A f \in Feeds : \A d \in Dates :
       ( /\ SyncStep(f)
         /\ avail[ApartmentOf(f)][d].present
         /\ avail[ApartmentOf(f)][d].note = "STAFF"
         /\ ~avail[ApartmentOf(f)][d].is_available )
       => avail'[ApartmentOf(f)][d] = avail[ApartmentOf(f)][d]]_vars

\* C3 (as a property of finite runs): an event that the remote feed has not
\* shown for more than 48 hours is marked deleted, and its night blocks are
\* gone, once the feed has been synced successfully after those 48 hours.
C3_TombstonedAfterGrace ==
  \A f \in Feeds : \A u \in UIDs :
    ( /\ feed[f].last_sync_status \in Successes
      /\ feed[f].last_synced = now
      /\ ledger[f][u].present
      /\ u \notin Current(remote[f], Today(now))
      /\ hist[f][u].absent_since # NULL
      /\ now - hist[f][u].absent_since > GraceMinutes )
    => /\ ledger[f][u].is_deleted
       /\ BlocksOf(avail[ApartmentOf(f)], f, u) = {}

\* C4: a sync marks an event deleted, or removes a night block of it, only
\* when every reconciled parse has missed the event for more than 48 hours
\* on end; the pass that first misses it only sets missing_since.
C4_GraceBeforeTombstone ==
  [][\A f \in Feeds : \A u \in UIDs :
       LET old  == ledger[f][u]
           new  == ledger'[f][u]
           gone == {d \in BlocksOf(avail[ApartmentOf(f)], f, u) :
                      ~avail'[ApartmentOf(f)][d].present}
       IN SyncStep(f) =>
            /\ ( (old.present /\ ~old.is_deleted /\ new.is_deleted)
                 \/ gone # {} )
               => /\ u \notin Current(remote'[f], Today(now))
                  /\ hist[f][u].absent_since # NULL
                  /\ now - hist[f][u].absent_since > GraceMinutes
            /\ (old.present /\ old.missing_since = NULL
                            /\ new.missing_since # NULL)
               => /\ new.missing_since = now
                  /\ ~new.is_deleted
                  /\ gone = {}]_vars

\* a pass has just tombstoned an event whose absence outlasted the 48 hours
C4_Witness ==
  \E f \in Feeds : \E u \in UIDs :
    /\ last.feed = f /\ last.ok /\ last.ran
    /\ feed[f].last_events_removed = 1
    /\ ledger[f][u].is_deleted
    /\ now - ledger[f][u].missing_since > GraceMinutes

\* C5: a reconciled parse that shows an event again clears its missing_since
\* and leaves it not deleted; while the event is shown it is not tombstoned,
\* however long ago it first went missing, and a later absence is counted
\* from the pass that first misses it again.
C5_ReappearanceClears ==
  /\ [][\A f \in Feeds : \A u \in UIDs :
          ( /\ SyncStep(f)
            /\ feed'[f].last_sync_status = "SUCCESS"
            /\ u \in Current(remote'[f], Today(now)) )
          => /\ ledger'[f][u].present
             /\ ledger'[f][u].missing_since = NULL
             /\ ~ledger'[f][u].is_deleted]_vars
  /\ [](\A f \in Feeds : \A u \in UIDs :
          /\ (ledger[f][u].present /\ hist[f][u].absent_since = NULL)
             => (ledger[f][u].missing_since = NULL /\ ~ledger[f][u].is_deleted)
          /\ (ledger[f][u].present /\ ledger[f][u].missing_since # NULL)
             => ledger[f][u].missing_since = hist[f][u].absent_since)

\* an event that went missing, came back, and is alive more than 48 hours
\* after it first went missing
C5_Witness ==
  \E f \in Feeds : \E u \in UIDs :
    /\ hist[f][u].revived_from # NULL
    /\ now - hist[f][u].revived_from > GraceMinutes
    /\ ledger[f][u].present
    /\ ~ledger[f][u].is_deleted
    /\ ledger[f][u].missing_since = NULL

\* C6: for every non-cancelled event a reconcile pass upserts, the imported
\* night blocks the pass writes for it are exactly the dates
\* dtstart <= d < dtend with neither a manual block nor a PENDING/CONFIRMED
\* booking; dtend is never written and an event with dtend <= dtstart writes
\* nothing.
C6_HalfOpenNights ==
  [][\A f \in Feeds :
       ( /\ SyncStep(f)
         /\ last'.ran )
       => /\ \A w \in last'.writes : w[1] \in last'.upserted
          /\ \A u \in last'.upserted :
               {d \in Dates : <<u, d>> \in last'.writes} =
               {d \in Dates :
                  /\ EventOf(remote'[f], u).start <= d
                  /\ d < EventOf(remote'[f], u).end
                  /\ ~has_manual(avail[ApartmentOf(f)], d)
                  /\ ~has_booking(bookings[ApartmentOf(f)], d)}]_vars

\* C7: any successful sync of a feed whose circuit is open (full reconcile,
\* 304 or hash match) leaves the circuit closed and consecutive_failures 0.
C7_SuccessClosesCircuit ==
  [][\A f \in Feeds :
       ( /\ SyncStep(f)
         /\ feed[f].is_circuit_open
         /\ feed'[f].last_sync_status \in Successes )
       => /\ ~feed'[f].is_circuit_open
          /\ feed'[f].consecutive_failures = 0]_vars

\* C8: a closed circuit stays closed while fewer than 5 failures have been
\* recorded in a row; the 5th opens it with circuit_opened_at the time of
\* that failure; a success restarts the count from 0.
C8_FifthFailureOpens ==
  /\ [](\A f \in Feeds :
          ~feed[f].is_circuit_open
             => feed[f].consecutive_failures < FailureThreshold)
  /\ [][\A f \in Feeds :
          SyncStep(f) =>
            /\ feed'[f].last_sync_status \in Successes
               => feed'[f].consecutive_failures = 0
            /\ (feed'[f].last_sync_status = "ERROR" /\ ~feed[f].is_circuit_open)
               => /\ feed'[f].consecutive_failures =
                       feed[f].consecutive_failures + 1
                  /\ feed'[f].is_circuit_open =
                       (feed'[f].consecutive_failures >= FailureThreshold)
                  /\ feed'[f].is_circuit_open
                       => feed'[f].circuit_opened_at = now]_vars

\* the fifth failure in a row has just opened the circuit
C8_Witness ==
  \E f \in Feeds :
    /\ feed[f].is_active
    /\ feed[f].is_circuit_open
    /\ feed[f].consecutive_failures = FailureThreshold
    /\ feed[f].last_sync_status = "ERROR"
    /\ feed[f].circuit_opened_at = now
    /\ feed[f].last_synced = now

\* C9: a feed whose circuit is open is neither selected by the scheduler nor
\* synced by the task within 1 hour of circuit_opened_at, and the probe made
\* after the cool-down either closes the circuit or starts a new cool-down,
\* so that no second probe follows it.
C9_OneProbe ==
  [][\A f \in Feeds :
       /\ (queue'[<<f, 0>>] > queue[<<f, 0>>] /\ feed[f].is_circuit_open)
          => now - feed[f].circuit_opened_at >= CooldownMinutes
       /\ (SyncStep(f) /\ feed[f].is_circuit_open)
          => /\ now - feed[f].circuit_opened_at >= CooldownMinutes
             /\ \/ ~feed'[f].is_circuit_open
                \/ feed'[f].circuit_opened_at = now]_vars

\* C10: a sync answered 304, or by a document whose hash is the stored one,
\* leaves every ledger row and night block as it was and records a success:
\* consecutive_failures 0, total_syncs and successful_syncs one more,
\* next_sync_at = now + sync interval.
C10_UnchangedSkipsReconcile ==
  [][\A f \in Feeds :
       ( /\ SyncStep(f)
         /\ feed'[f].last_sync_status \in {"NOT_MODIFIED", "HASH_MATCH"} )
       => /\ ledger' = ledger
          /\ avail' = avail
          /\ feed'[f].consecutive_failures = 0
          /\ feed'[f].successful_syncs = feed[f].successful_syncs + 1
          /\ feed'[f].next_sync_at = now + feed[f].sync_interval_minutes]_vars

\* a 304 or hash match has just been recorded for a feed that holds an event
\* gone missing more than 48 hours ago
C10_Witness ==
  \E f \in Feeds : \E u \in UIDs :
    /\ last.feed = f /\ last.ok /\ ~last.ran
    /\ feed[f].last_sync_status \in {"NOT_MODIFIED", "HASH_MATCH"}
    /\ ledger[f][u].present /\ ~ledger[f][u].is_deleted
    /\ ledger[f][u].missing_since # NULL
    /\ now - ledger[f][u].missing_since > GraceMinutes

\* C11: reconciling the parse a pass has just reconciled once more, at the
\* same time and on the rows the pass left, changes no ledger row and no
\* night block, tombstones nothing and creates no ledger row.
C11_ReconcileIdempotent ==
  [][\A f \in Feeds :
       ( /\ SyncStep(f)
         /\ last'.ran )
       => LET again == Reconcile(f, remote'[f], now, ledger'[f],
                                 avail'[ApartmentOf(f)],
                                 bookings[ApartmentOf(f)])
          IN /\ again.err = ~last'.ok
             /\ again.led = ledger'[f]
             /\ again.av = avail'[ApartmentOf(f)]
             /\ again.created = 0
             /\ again.removed = 0]_vars

\* a pass has just written night blocks for one event and found another
\* one missing for the first time
C11_Witness ==
  \E f \in Feeds : \E u \in UIDs :
    /\ last.feed = f /\ last.ok /\ last.ran
    /\ last.writes # {}
    /\ ledger[f][u].present
    /\ ledger[f][u].missing_since = now

\* C12: when a sync attempt failed inside parse/reconcile, the next attempt of
\* the feed that fetches the same, unchanged remote content runs the
\* reconciliation again.
C12_FailedPassRedone ==
  [][\A f \in Feeds :
       ( /\ last.feed = f /\ last.ran /\ ~last.ok
         /\ SyncStep(f)
         /\ remote'[f] = remote[f] )
       => \/ last'.ran
          \/ feed'[f].last_sync_status = "ERROR"]_vars

\* C13: a pass in which a night-block write violates the unique constraint
\* (apartment, date) still completes as a success: no failure is recorded
\* and every current event of the parse is reconciled.
C13_ConflictSwallowed ==
  [][\A f \in Feeds :
       ( /\ SyncStep(f)
         /\ last'.ran )
       => /\ last'.ok
          /\ feed'[f].last_sync_status = "SUCCESS"
          /\ feed'[f].consecutive_failures = 0
          /\ last'.upserted =
               {u \in Current(remote'[f], Today(now)) :
                  EventOf(remote'[f], u).status # "CANCELLED"}]_vars

\* C14: the lock of a feed is taken only while an invocation of the queued
\* task that acquired it is still running: once the invocation has ended, by
\* whatever exit, its lock has been released.
C14_LockReleased ==
  \A f \in Feeds :
    lock[f] => \E w \in Workers : /\ exec[w].pc # "idle"
                                  /\ exec[w].held
                                  /\ exec[w].feed = f

\* a failed sync has raised for its retry and the lock is free again
C14_Witness ==
  /\ \A w \in Workers : exec[w].pc = "idle"
  /\ ~lock[1]
  /\ feed[1].last_sync_status = "ERROR"
  /\ queue[<<1, 1>>] > 0

\* C15: an invocation of the queued task that abandons without syncing returns
\* normally: it queues no retry and changes no feed field, ledger row or night
\* block; one that found the lock taken leaves the lock as it is.
C15_AbandonChangesNothing ==
  [][\A w \in Workers : \A f \in Feeds :
       /\ ( /\ lock[f]
            /\ \E r \in 0..MaxRetries : queue'[<<f, r>>] < queue[<<f, r>>] )
          => /\ UNCHANGED <<feed, ledger, avail, lock, exec>>
             /\ \E r \in 0..MaxRetries :
                  queue' = [queue EXCEPT ![<<f, r>>] = @ - 1]
       /\ ( /\ exec[w].pc = "idle"
            /\ exec'[w].pc = "done"
            /\ exec'[w].feed = f )
          => /\ TaskSkips(feed[f], now)
             /\ exec'[w].ok
             /\ UNCHANGED <<feed, ledger, avail>>
             /\ \E r \in 0..MaxRetries :
                  queue' = [queue EXCEPT ![<<f, r>>] = @ - 1]
       /\ ( /\ exec[w].pc = "done"
            /\ exec[w].ok
            /\ exec'[w].pc = "idle" )
          => /\ queue' = queue
             /\ UNCHANGED <<feed, ledger, avail>>]_vars

\* an invocation holds the lock and is about to return because the circuit
\* of its active feed opened less than the cool-down ago, while the other
\* worker is free and a work item of the feed waits
C15_Witness ==
  \E w \in Workers : \E v \in Workers \ {w} :
    /\ exec[w].pc = "done" /\ exec[w].held /\ exec[w].ok
    /\ exec[w].self.is_active
    /\ exec[w].self.is_circuit_open
    /\ now - exec[w].self.circuit_opened_at < CooldownMinutes
    /\ exec[v].pc = "idle"
    /\ lock[exec[w].feed]
    /\ \E r \in 0..MaxRetries : queue[<<exec[w].feed, r>>] > 0

\* C16: an attempt of a work item that syncs and fails records exactly one
\* failure (consecutive_failures and total_syncs one more each); while it is
\* one of the first three attempts it raises, which queues exactly the next
\* attempt; the fourth attempt ends without raising, and an attempt that
\* succeeds queues nothing: a work item runs at most 4 sync attempts.
C16_FourAttempts ==
  [][\A w \in Workers :
       /\ ( /\ exec[w].pc \in {"fetch", "reconcile"}
            /\ exec'[w].pc = "done"
            /\ ~exec'[w].ok )
          => /\ feed'[exec[w].feed].consecutive_failures =
                  feed[exec[w].feed].consecutive_failures + 1
             /\ feed'[exec[w].feed].total_syncs =
                  feed[exec[w].feed].total_syncs + 1
             /\ feed'[exec[w].feed].successful_syncs =
                  feed[exec[w].feed].successful_syncs
             /\ queue' = queue
       /\ ( /\ exec[w].pc = "done"
            /\ exec'[w].pc = "idle" )
          => queue' = IF ~exec[w].ok /\ exec[w].retries < MaxRetries
                      THEN [queue EXCEPT
                              ![<<exec[w].feed, exec[w].retries + 1>>] = @ + 1]
                      ELSE queue]_vars

\* one work item has made its four attempts, all failed, and nothing is queued
C16_Witness ==
  \E f \in Feeds :
    /\ \A w \in Workers : exec[w].pc = "idle"
    /\ \A i \in Items : queue[i] = 0
    /\ feed[f].is_active
    /\ feed[f].total_syncs = MaxRetries + 1
    /\ feed[f].consecutive_failures = MaxRetries + 1
    /\ feed[f].last_sync_status = "ERROR"

\* the feeds an invocation of schedule_due_ical_feeds would select now
Selected == UNION due_feeds \cup UNION half_open_feeds

C19_BackoffDoubling ==
  [][\A f \in Feeds :
       ( /\ SyncStep(f)
         /\ feed'[f].last_sync_status = "ERROR" )
       => LET k == feed'[f].consecutive_failures
              interval == feed[f].sync_interval_minutes
              delay == feed'[f].next_sync_at - now
          IN /\ k = feed[f].consecutive_failures + 1
             /\ delay = Min(interval * (2 ^ k), MinutesPerDay)
             /\ k \in 1..3 => delay = interval * (2 ^ k)
             /\ feed[f].last_sync_status = "ERROR"
                  => delay >= feed[f].next_sync_at - feed[f].last_synced
             /\ delay <= MinutesPerDay]_vars

\* C19, amended: the same, with the delay for k = 1, 2, 3 being interval * 2,
\* * 4, * 8 only while that is at most 1440 minutes, and 1440 otherwise.
C19_BackoffCapped ==
  [][\A f \in Feeds :
       ( /\ SyncStep(f)
         /\ feed'[f].last_sync_status = "ERROR" )
       => LET k == feed'[f].consecutive_failures
              interval == feed[f].sync_interval_minutes
              delay == feed'[f].next_sync_at - now
          IN /\ k = feed[f].consecutive_failures + 1
             /\ delay = Min(interval * (2 ^ k), MinutesPerDay)
             /\ k \in 1..3 =>
                  delay = IF interval * (2 ^ k) <= MinutesPerDay
                          THEN interval * (2 ^ k) ELSE MinutesPerDay
             /\ feed[f].last_sync_status = "ERROR"
                  => delay >= feed[f].next_sync_at - feed[f].last_synced
             /\ delay <= MinutesPerDay]_vars

\* the third failure in a row of a feed polled every 240 minutes has been
\* recorded: 240 * 8 exceeds a day and the delay is 1440
C19_Witness ==
  \E f \in Feeds :
    /\ feed[f].sync_interval_minutes = 240
    /\ feed[f].consecutive_failures = 3
    /\ feed[f].last_sync_status = "ERROR"
    /\ feed[f].next_sync_at - feed[f].last_synced = MinutesPerDay

\* C20: when a pass tombstones an event of a feed, a date that was blocked and
\* that another event of the same feed, present in the parse and not
\* cancelled, covers as well is still blocked after the pass.
C20_OverlapKept ==
  [][\A f \in Feeds : \A u1 \in UIDs : \A u2 \in UIDs \ {u1} : \A d \in Dates :
       ( /\ SyncStep(f)
         /\ ~ledger[f][u2].is_deleted
         /\ ledger'[f][u2].is_deleted
         /\ ledger[f][u2].dtstart <= d
         /\ d < ledger[f][u2].dtend
         /\ u1 \in Current(remote'[f], Today(now))
         /\ EventOf(remote'[f], u1).status # "CANCELLED"
         /\ EventOf(remote'[f], u1).start <= d
         /\ d < EventOf(remote'[f], u1).end
         /\ avail[ApartmentOf(f)][d].present
         /\ ~avail[ApartmentOf(f)][d].is_available )
       => /\ avail'[ApartmentOf(f)][d].present
          /\ ~avail'[ApartmentOf(f)][d].is_available]_vars

\* a pass that created no ledger row has tombstoned one of two events that
\* covered the same date; the other is in the parse, and the date holds the
\* block of the other
C20_Witness ==
  \E f \in Feeds : \E u1 \in UIDs : \E u2 \in UIDs \ {u1} : \E d \in Dates :
    /\ last.feed = f /\ last.ran /\ last.ok
    /\ feed[f].last_events_created = 0
    /\ feed[f].last_events_removed = 1
    /\ ledger[f][u2].is_deleted
    /\ ledger[f][u2].dtstart <= d /\ d < ledger[f][u2].dtend
    /\ u1 \in last.upserted
    /\ ledger[f][u1].dtstart <= d /\ d < ledger[f][u1].dtend
    /\ avail[ApartmentOf(f)][d].present
    /\ avail[ApartmentOf(f)][d].ical_feed = f
    /\ avail[ApartmentOf(f)][d].ical_event = u1
    /\ <<u1, d>> \in last.writes

C22_CancelledCountsDown ==
  [][\A f \in Feeds : \A u \in UIDs :
       ( /\ SyncStep(f)
         /\ last'.ran
         /\ last'.ok
         /\ ledger[f][u].present
         /\ ~ledger[f][u].is_deleted
         /\ ledger[f][u].status \in {"CONFIRMED", "TENTATIVE"}
         /\ BlocksOf(avail[ApartmentOf(f)], f, u) # {}
         /\ u \in Current(remote'[f], Today(now))
         /\ EventOf(remote'[f], u).status = "CANCELLED" )
       => /\ ledger'[f][u].missing_since # NULL
          /\ ledger'[f][u].status = ledger[f][u].status]_vars

\* C23: after every pass that completes, each imported night block linked to
\* a non-deleted event of the feed lies inside that event's current dates:
\* dtstart <= d < dtend.
C23_BlocksInsideEvent ==
  [][\A f \in Feeds :
       ( /\ SyncStep(f)
         /\ last'.ran
         /\ last'.ok )
       => \A u \in UIDs : \A d \in BlocksOf(avail'[ApartmentOf(f)], f, u) :
            ( /\ avail'[ApartmentOf(f)][d].source = "ICAL"
              /\ ledger'[f][u].present
              /\ ~ledger'[f][u].is_deleted )
            => /\ ledger'[f][u].dtstart <= d
               /\ d < ledger'[f][u].dtend]_vars

\* C24: after any sync of a feed that ends as a success (full, NotModified or
\* Unchanged), every night of each live event of the feed (in the ledger, not
\* deleted, not cancelled, in the document the remote serves, not yet ended)
\* is unavailable for the apartment: it has a row with is_available = FALSE
\* or a booking occupies it.
C24_LiveEventsBlocked ==
  [][\A f \in Feeds :
       ( /\ SyncStep(f)
         /\ feed'[f].last_sync_status \in Successes )
       => \A u \in Current(remote'[f], Today(now)) :
            ( /\ ledger'[f][u].present
              /\ ~ledger'[f][u].is_deleted
              /\ ledger'[f][u].status # "CANCELLED"
              /\ EventOf(remote'[f], u).status # "CANCELLED" )
            => \A d \in Dates :
                 ( ledger'[f][u].dtstart <= d /\ d < ledger'[f][u].dtend )
                 => \/ /\ avail'[ApartmentOf(f)][d].present
                       /\ ~avail'[ApartmentOf(f)][d].is_available
                    \/ has_booking(bookings'[ApartmentOf(f)], d)]_vars

\* C25: the pipeline never starts a sync of a circuit-closed feed before the
\* next_sync_at that the previous attempt recorded: a sync step of the feed
\* happens only when now >= next_sync_at.
C25_NoSyncBeforeDue ==
  [][\A f \in Feeds :
       ( /\ SyncStep(f)
         /\ ~feed[f].is_circuit_open
         /\ feed[f].next_sync_at # NULL )
       => now >= feed[f].next_sync_at]_vars

\* C26: a change made to the feed row by another actor while a sync of the
\* feed is in progress is still in effect after the sync finishes: a feed
\* that staff disabled during the sync (is_active = FALSE, circuit opened)
\* is still disabled after the sync's final save.
C26_ChangeSurvivesSync ==
  [][\A e \in Execs :
       ( /\ exec[e].pc \in {"fetch", "reconcile"}
         /\ exec'[e].pc = "done"
         /\ exec[e].self.is_active
         /\ ~feed[exec[e].feed].is_active )
       => /\ ~feed'[exec[e].feed].is_active
          /\ feed'[exec[e].feed].is_circuit_open]_vars

\* C27: the release at the end of an invocation removes only the lock that
\* this invocation acquired: when its own key has expired and another
\* invocation has since acquired the lock of the feed, the lock is still
\* there after the release.
C27_ReleaseOwnLockOnly ==
  [][\A w \in Workers : \A b \in Workers :
       ( /\ exec[w].pc = "done"
         /\ exec'[w].pc = "idle"
         /\ exec[w].held
         /\ ~Owns(w, exec[w].feed)
         /\ b # w
         /\ Owns(b, exec[w].feed)
         /\ lock[exec[w].feed] )
       => lock'[exec[w].feed]]_vars

\* C28: after every sync outcome of a feed (full success, NotModified,
\* Unchanged, failure) the circuit-breaker fields agree: is_circuit_open is
\* true exactly when consecutive_failures >= 5, and circuit_opened_at is
\* non-null exactly when the circuit is open.
C28_CircuitFieldsAgree ==
  [][\A f \in Feeds :
       SyncStep(f)
       => /\ feed'[f].is_circuit_open
               <=> feed'[f].consecutive_failures >= FailureThreshold
          /\ feed'[f].circuit_opened_at # NULL
               <=> feed'[f].is_circuit_open]_vars

\* C29: a sync of feed f changes nothing but f's own feed row, f's ledger
\* events and the night blocks of f: the rows and ledger of every other feed,
\* every MANUAL-source night block and every booking are as before, and a
\* row the sync created or changed is an ICAL row of f.
C29_SyncFrame ==
  [][\A f \in Feeds :
       SyncStep(f)
       => /\ bookings' = bookings
          /\ \A g \in Feeds \ {f} : /\ feed'[g] = feed[g]
                                    /\ ledger'[g] = ledger[g]
          /\ \A a \in Apartments : \A d \in Dates :
               /\ ( /\ avail[a][d].present
                    /\ \/ avail[a][d].source = "MANUAL"
                       \/ avail[a][d].ical_feed # f )
                  => avail'[a][d] = avail[a][d]
               /\ ( /\ avail'[a][d] # avail[a][d]
                    /\ avail'[a][d].present )
                  => /\ a = ApartmentOf(f)
                     /\ avail'[a][d].ical_feed = f
                     /\ avail'[a][d].source = "ICAL"]_vars

\* a pass of feed 1 has just written night blocks and tombstoned an event
\* while the apartment holds a MANUAL row and a row of feed 2 or a booking
C29_Witness ==
  /\ last.feed = 1
  /\ last.ran
  /\ last.ok
  /\ last.writes # {}
  /\ feed[1].last_events_removed > 0
  /\ \E d \in Dates : has_manual(avail[1], d)
  /\ \/ \E d \in Dates : avail[1][d].present /\ avail[1][d].ical_feed = 2
     \/ bookings[1] # {}

\* C30: no due feed is starved by the scheduler: a feed that has been active,
\* circuit-closed and due since the first invocation of
\* schedule_due_ical_feeds has been queued by the time any other feed is
\* queued for the second time.
C30_NoStarvation ==
  \A f \in DOMAIN feed : \A g \in DOMAIN feed :
    ( /\ f \in due_rows
      /\ feed[f].total_syncs = 0
      /\ queue[<<f, 0>>] = 0 )
    => feed[g].total_syncs + queue[<<g, 0>>] <= 1

====
